---- MODULE Spec2Model ----
(***************************************************************************)
(* A model of test-network/bench-ph/plot.py: the row reader (read_rows),   *)
(* the pivot index (pivot_by_file), the three chart renderers and main.    *)
(*                                                                         *)
(* Text is kept as TLA+ strings and handled character by character, so     *)
(* that strip(), int(), float() and sorted() are computed, not assumed.    *)
(* A Python float is modelled by the exact rational it was written as      *)
(* (numerator n, denominator d > 0, in lowest terms); the cell texts of    *)
(* the model are signed decimal numerals, so exponents, "inf", "nan" and   *)
(* digit-group underscores are outside the modelled alphabet.              *)
(***************************************************************************)
EXTENDS Integers, Sequences, FiniteSets, TLC

VARIABLES
    header,      \* the column names of the table's header row (csv.DictReader.fieldnames)
    input,       \* the data rows DictReader yields, in file order (blank lines are skipped by it)
    pc,          \* main's position
    error,       \* the exception that ended the run, "" while none
    fileOpen,    \* the input file handle of read_rows is open
    reads,       \* number of read_rows invocations
    rows,        \* main's `rows`
    invoked,     \* the renderers invoked so far, in order
    openFigs,    \* the pyplot figures that are open, by the renderer that made them
    timeChart,   \* what make_time_plot drew
    speedupChart,\* what make_speedup_plot drew
    thrChart,    \* what make_throughput_plot drew
    written,     \* the image files written, in order
    printed      \* the lines main printed

vars == <<header, input, pc, error, fileOpen, reads, rows, invoked, openFigs,
          timeChart, speedupChart, thrChart, written, printed>>

---------------------------------------------------------------------------
(* Bounds of the model.                                                    *)

\* longest table of a whole-run behaviour (Spec)
MaxRows == 2
\* longest table of the coercion behaviours (SpecCoerce)
MaxCoerceRows == 1
\* longest table of the grouping behaviours (SpecOrder)
MaxOrderRows == 4
\* longest table of the sorting behaviours (SpecSort)
MaxSortRows == 4

---------------------------------------------------------------------------
(* Text.                                                                   *)

Char(s, i) == SubSeq(s, i, i)

\* The characters of the model's texts in code-point order (str comparison
\* in Python compares code points).
CodePoints == " +-.0123456789ABCDEFGHIJKLMNOPQRSTUVWXYZ_abcdefghijklmnopqrstuvwxyz"

OrdTable == [c \in {Char(CodePoints, i) : i \in 1..Len(CodePoints)} |->
                CHOOSE i \in 1..Len(CodePoints) : Char(CodePoints, i) = c]

\* ord(c), up to the gaps between the characters of the model
Ord(c) == OrdTable[c]

IsSpace(c) == c = " "

IsDigit(c) == c \in {"0", "1", "2", "3", "4", "5", "6", "7", "8", "9"}

DigitVal(c) ==
    CASE c = "0" -> 0 [] c = "1" -> 1 [] c = "2" -> 2 [] c = "3" -> 3 [] c = "4" -> 4
      [] c = "5" -> 5 [] c = "6" -> 6 [] c = "7" -> 7 [] c = "8" -> 8 [] c = "9" -> 9

RECURSIVE LStrip(_)
LStrip(s) == IF Len(s) > 0 /\ IsSpace(Char(s, 1)) THEN LStrip(SubSeq(s, 2, Len(s))) ELSE s

RECURSIVE RStrip(_)
RStrip(s) == IF Len(s) > 0 /\ IsSpace(Char(s, Len(s))) THEN RStrip(SubSeq(s, 1, Len(s) - 1)) ELSE s

\* str.strip()
Strip(s) == RStrip(LStrip(s))

AllDigits(s) == \A i \in 1..Len(s) : IsDigit(Char(s, i))

RECURSIVE DecValue(_)
DecValue(s) == IF Len(s) = 0 THEN 0
               ELSE 10 * DecValue(SubSeq(s, 1, Len(s) - 1)) + DigitVal(Char(s, Len(s)))

RECURSIVE Pow10(_)
Pow10(k) == IF k = 0 THEN 1 ELSE 10 * Pow10(k - 1)

\* str < str
RECURSIVE StrLess(_, _)
StrLess(s, t) ==
    IF Len(t) = 0 THEN FALSE
    ELSE IF Len(s) = 0 THEN TRUE
    ELSE IF Char(s, 1) = Char(t, 1) THEN StrLess(SubSeq(s, 2, Len(s)), SubSeq(t, 2, Len(t)))
    ELSE Ord(Char(s, 1)) < Ord(Char(t, 1))

---------------------------------------------------------------------------
(* Values: None, int, float.                                               *)

Abs(x) == IF x < 0 THEN -x ELSE x

RECURSIVE Gcd(_, _)
Gcd(a, b) == IF b = 0 THEN a ELSE Gcd(b, a % b)

None == [tag |-> "None", n |-> 0, d |-> 1]

IntVal(v) == [tag |-> "int", n |-> v, d |-> 1]

\* the float n/d, d # 0, in lowest terms with a positive denominator
FloatVal(n, d) ==
    LET g == Gcd(Abs(n), Abs(d))
        s == IF d < 0 THEN -1 ELSE 1
    IN  [tag |-> "float", n |-> (s * n) \div g, d |-> (s * d) \div g]

\* Python truthiness of None, an int or a float
Truthy(v) == v.tag # "None" /\ v.n # 0

\* OrElse without its default: `v`
OrElseNoDefault(v, default) == v

\* `v or default`
OrElse(v, default) == IF Truthy(v) THEN v ELSE default

\* the unsigned part of a numeral, after an optional sign
Unsigned(s) == IF Len(s) > 0 /\ Char(s, 1) \in {"+", "-"} THEN SubSeq(s, 2, Len(s)) ELSE s

Sign(s) == IF Len(s) > 0 /\ Char(s, 1) = "-" THEN -1 ELSE 1

\* int(x): the value, or None where int() raises ValueError
ParseInt(s) ==
    LET u == Unsigned(s)
    IN  IF Len(u) > 0 /\ AllDigits(u) THEN IntVal(Sign(s) * DecValue(u)) ELSE None

DotAt(u) == {i \in 1..Len(u) : Char(u, i) = "."}

\* float(x): the value, or None where float() raises ValueError
ParseFloat(s) ==
    LET u == Unsigned(s)
        dots == DotAt(u)
    IN  IF dots = {}
        THEN IF Len(u) > 0 /\ AllDigits(u) THEN FloatVal(Sign(s) * DecValue(u), 1) ELSE None
        ELSE LET p == CHOOSE i \in dots : TRUE
                 ip == SubSeq(u, 1, p - 1)
                 fp == SubSeq(u, p + 1, Len(u))
             IN  IF Cardinality(dots) = 1 /\ AllDigits(ip) /\ AllDigits(fp) /\ Len(ip) + Len(fp) > 0
                 THEN FloatVal(Sign(s) * (DecValue(ip) * Pow10(Len(fp)) + DecValue(fp)), Pow10(Len(fp)))
                 ELSE None

---------------------------------------------------------------------------
(* The table.  A cell is a text, or missing (a row shorter than the header *)
(* leaves DictReader's restval, None).  A raw row gives a cell for every   *)
(* column name; the dict DictReader yields has the header's columns only.  *)

Columns == {"algo", "file", "B_bytes", "bytes", "elapsed_ms_med", "throughput_mib_s", "sum_hex"}

NumericColumns == {"B_bytes", "bytes", "elapsed_ms_med", "throughput_mib_s"}

Cell(t) == [some |-> TRUE, text |-> t]

Missing == [some |-> FALSE, text |-> ""]

\* r.get(col, ""): the cell, None for a missing cell, "" for a column the header lacks
Get(hdr, r, col) == IF col \in hdr THEN r[col] ELSE Cell("")

\* (x or "").strip()
TextOf(x) == Strip(IF x.some THEN x.text ELSE "")

\* read_rows.to_int
to_int(x) == ParseInt(TextOf(x))

\* read_rows.to_float
to_float(x) == ParseFloat(TextOf(x))

\* RequiredRaises reading the column with r.get(col, ""): no KeyError
RequiredNeverKeyError(hdr, r, col) == IF col \in hdr /\ ~r[col].some THEN "AttributeError" ELSE ""

\* r[col].strip() of a required column: the exception it raises, "" if none
RequiredRaises(hdr, r, col) ==
    IF col \notin hdr THEN "KeyError"
    ELSE IF ~r[col].some THEN "AttributeError"
    ELSE ""

\* the exception the body of the loop raises on raw row r, "" if none
RowRaises(hdr, r) ==
    IF RequiredRaises(hdr, r, "algo") # "" THEN RequiredRaises(hdr, r, "algo")
    ELSE RequiredRaises(hdr, r, "file")

\* the dict `out` that the body of the loop appends for raw row r
Record(hdr, r) ==
    [algo             |-> Strip(r["algo"].text),
     file             |-> Strip(r["file"].text),
     B_bytes          |-> to_int(Get(hdr, r, "B_bytes")),
     bytes            |-> OrElse(to_int(Get(hdr, r, "bytes")), IntVal(0)),
     elapsed_ms_med   |-> OrElse(to_float(Get(hdr, r, "elapsed_ms_med")), FloatVal(0, 1)),
     throughput_mib_s |-> OrElse(to_float(Get(hdr, r, "throughput_mib_s")), FloatVal(0, 1)),
     sum_hex          |-> TextOf(Get(hdr, r, "sum_hex"))]

\* read_rows' loop from raw row i on, `acc` being the rows appended so far:
\* the rows returned, or the exception that left the loop
RECURSIVE ReadFrom(_, _, _, _)
ReadFrom(hdr, table, i, acc) ==
    IF i > Len(table) THEN [raised |-> "", rows |-> acc]
    ELSE IF RowRaises(hdr, table[i]) # "" THEN [raised |-> RowRaises(hdr, table[i]), rows |-> acc]
    ELSE ReadFrom(hdr, table, i + 1, Append(acc, Record(hdr, table[i])))

---------------------------------------------------------------------------
(* pivot_by_file.  A dict keeps its keys in insertion order: the outer     *)
(* dict is its key order and its mapping, the inner dict a function on the *)
(* algorithm names it holds.                                               *)

EmptyDict == [k \in {} |-> None]

EmptyIndex == [order |-> <<>>, at |-> [k \in {} |-> EmptyDict]]

\* d[k] = v
SetItem(d, k, v) == [x \in DOMAIN d \cup {k} |-> IF x = k THEN v ELSE d[x]]

\* algo in ("SHA-256", "PH128")
Recognized(algo) == algo \in {"SHA-256", "PH128"}

\* InsertKey putting the new key first
InsertKeyFront(order, fname) == <<fname>> \o order

\* the key order after by_file[fname] = {} creates a key
InsertKey(order, fname) == Append(order, fname)

\* PivotStep keeping the first row of a file and algorithm, not the last
PivotStepFirstWins(by_file, r) ==
    IF ~Recognized(r.algo) THEN by_file
    ELSE LET created == IF r.file \notin DOMAIN by_file.at
                        THEN [order |-> InsertKey(by_file.order, r.file),
                              at    |-> SetItem(by_file.at, r.file, EmptyDict)]
                        ELSE by_file
         IN  IF r.algo \in DOMAIN created.at[r.file] THEN created
             ELSE [created EXCEPT !.at[r.file] = SetItem(@, r.algo, r)]

\* one iteration of pivot_by_file's loop
PivotStep(by_file, r) ==
    IF ~Recognized(r.algo) THEN by_file
    ELSE LET created == IF r.file \notin DOMAIN by_file.at
                        THEN [order |-> InsertKey(by_file.order, r.file),
                              at    |-> SetItem(by_file.at, r.file, EmptyDict)]
                        ELSE by_file
         IN  [created EXCEPT !.at[r.file] = SetItem(@, r.algo, r)]

RECURSIVE PivotFrom(_, _, _)
PivotFrom(rs, i, by_file) ==
    IF i > Len(rs) THEN by_file ELSE PivotFrom(rs, i + 1, PivotStep(by_file, rs[i]))

pivot_by_file(rs) == PivotFrom(rs, 1, EmptyIndex)

---------------------------------------------------------------------------
(* The renderers' category and value lists.                                *)

\* "SHA-256" in algos and "PH128" in algos
BothAlgos(algos) == "SHA-256" \in DOMAIN algos /\ "PH128" \in DOMAIN algos

\* TimeQualifies without the test for the aggregate marker
TimeQualifiesWithTotal(fname, algos) == BothAlgos(algos)

\* make_time_plot: the test that admits fname as a category
TimeQualifies(fname, algos) == fname # "TOTAL" /\ BothAlgos(algos)

\* PhTime reading the SHA-256 record
PhTimeFromSha(algos) == algos["SHA-256"].elapsed_ms_med

\* make_time_plot: the value appended to ph_times
PhTime(algos) == algos["PH128"].elapsed_ms_med

\* make_time_plot: the value appended to sha_times
ShaTime(algos) == algos["SHA-256"].elapsed_ms_med

EmptyPairChart == [labels |-> <<>>, sha |-> <<>>, ph |-> <<>>]

RECURSIVE TimeFrom(_, _, _)
TimeFrom(by_file, i, chart) ==
    IF i > Len(by_file.order) THEN chart
    ELSE LET fname == by_file.order[i]
             algos == by_file.at[fname]
         IN  TimeFrom(by_file, i + 1,
                 IF TimeQualifies(fname, algos)
                 THEN [labels |-> Append(chart.labels, fname),
                       sha    |-> Append(chart.sha, ShaTime(algos)),
                       ph     |-> Append(chart.ph, PhTime(algos))]
                 ELSE chart)

\* labels, sha_times, ph_times of make_time_plot
TimeSeries(rs) == TimeFrom(pivot_by_file(rs), 1, EmptyPairChart)

\* `if sha_t and ph_t`
SpeedupGuard(sha_t, ph_t) == Truthy(sha_t) /\ Truthy(ph_t)

\* SpeedupValue with both throughputs rounded down to whole numbers first
SpeedupValueRounded(ph_t, sha_t) == FloatVal(ph_t.n \div ph_t.d, sha_t.n \div sha_t.d)

\* ph_t / sha_t, for sha_t # 0
SpeedupValue(ph_t, sha_t) == FloatVal(ph_t.n * sha_t.d, ph_t.d * sha_t.n)

EmptySpeedupChart == [labels |-> <<>>, speedups |-> <<>>, raised |-> ""]

\* make_speedup_plot's loop; a float division by zero raises ZeroDivisionError
RECURSIVE SpeedupFrom(_, _, _)
SpeedupFrom(by_file, i, chart) ==
    IF i > Len(by_file.order) THEN chart
    ELSE LET fname == by_file.order[i]
             algos == by_file.at[fname]
             sha_t == algos["SHA-256"].throughput_mib_s
             ph_t  == algos["PH128"].throughput_mib_s
         IN  IF BothAlgos(algos) /\ SpeedupGuard(sha_t, ph_t)
             THEN IF sha_t.n = 0
                  THEN [chart EXCEPT !.raised = "ZeroDivisionError"]
                  ELSE SpeedupFrom(by_file, i + 1,
                           [labels   |-> Append(chart.labels, fname),
                            speedups |-> Append(chart.speedups, SpeedupValue(ph_t, sha_t)),
                            raised   |-> ""])
             ELSE SpeedupFrom(by_file, i + 1, chart)

\* labels and speedups of make_speedup_plot
SpeedupSeries(rs) == SpeedupFrom(pivot_by_file(rs), 1, EmptySpeedupChart)

preferred == <<"public_state.data", "private_state_hashes.data", "txids.data", "_all.data", "TOTAL">>

InSeq(x, s) == \E i \in 1..Len(s) : s[i] = x

\* list.insert keeping a sorted list sorted
RECURSIVE InsertSorted(_, _)
InsertSorted(s, x) ==
    IF Len(s) = 0 THEN <<x>>
    ELSE IF StrLess(x, Head(s)) THEN <<x>> \o s
    ELSE <<Head(s)>> \o InsertSorted(Tail(s), x)

RECURSIVE SortFrom(_, _, _)
SortFrom(s, i, acc) == IF i > Len(s) THEN acc ELSE SortFrom(s, i + 1, InsertSorted(acc, s[i]))

\* sorted(list of str)
Sorted(s) == SortFrom(s, 1, <<>>)

\* all_labels of make_throughput_plot
AllLabels(by_file) == SelectSeq(by_file.order, LAMBDA f : BothAlgos(by_file.at[f]))

\* ThroughputLabels without sorted(): the other names in index order
ThroughputLabelsUnsorted(all_labels) ==
    SelectSeq(preferred, LAMBDA f : InSeq(f, all_labels))
        \o SelectSeq(all_labels, LAMBDA f : ~InSeq(f, preferred))

\* labels of make_throughput_plot
ThroughputLabels(all_labels) ==
    SelectSeq(preferred, LAMBDA f : InSeq(f, all_labels))
        \o Sorted(SelectSeq(all_labels, LAMBDA f : ~InSeq(f, preferred)))

\* labels, sha_vals, ph_vals of make_throughput_plot
ThroughputSeries(rs) ==
    LET by_file == pivot_by_file(rs)
        Series(labels) ==
            [labels |-> labels,
             sha    |-> [i \in 1..Len(labels) |-> by_file.at[labels[i]]["SHA-256"].throughput_mib_s],
             ph     |-> [i \in 1..Len(labels) |-> by_file.at[labels[i]]["PH128"].throughput_mib_s]]
    IN  Series(ThroughputLabels(AllLabels(by_file)))

---------------------------------------------------------------------------
(* main.                                                                   *)

\* args.csv.stem, for the default --csv
Stem == "snapshot_bench"

time_png == Stem \o "_time.png"

speedup_png == Stem \o "_speedup.png"

throughput_png == Stem \o "_throughput.png"

\* After with the speedup renderer called before the time renderer
AfterSpeedupFirst(step) ==
    CASE step = "read_rows"            -> "make_speedup_plot"
      [] step = "make_speedup_plot"    -> "make_time_plot"
      [] step = "make_time_plot"       -> "make_throughput_plot"
      [] step = "make_throughput_plot" -> "print"

\* main's statement after the call `step` returns
After(step) ==
    CASE step = "read_rows"            -> "make_time_plot"
      [] step = "make_time_plot"       -> "make_speedup_plot"
      [] step = "make_speedup_plot"    -> "make_throughput_plot"
      [] step = "make_throughput_plot" -> "print"

\* an exception nothing catches: it leaves main
Raise(exc) == pc' = "failed" /\ error' = exc

NotDrawn == [drawn |-> FALSE, labels |-> <<>>, sha |-> <<>>, ph |-> <<>>]

NoSpeedup == [drawn |-> FALSE, labels |-> <<>>, speedups |-> <<>>]

\* read_rows is called; `with csv_path.open(...)` opens the file or raises
OpenInput ==
    /\ pc = "main"
    /\ reads' = reads + 1
    /\ \E ok \in BOOLEAN :
          IF ok THEN fileOpen' = TRUE /\ pc' = "read_rows" /\ error' = error
                ELSE fileOpen' = fileOpen /\ Raise("OSError")
    /\ UNCHANGED <<header, input, rows, invoked, openFigs, timeChart, speedupChart,
                   thrChart, written, printed>>

\* the loop of read_rows and the end of its `with` block, which closes the
\* file whether the loop ended or raised
ReadRows ==
    /\ pc = "read_rows"
    /\ \E res \in {ReadFrom(header, input, 1, <<>>)} :
          IF res.raised = ""
          THEN rows' = res.rows /\ pc' = After("read_rows") /\ error' = error
          ELSE rows' = rows /\ Raise(res.raised)
    /\ fileOpen' = FALSE
    /\ UNCHANGED <<header, input, reads, invoked, openFigs, timeChart, speedupChart,
                   thrChart, written, printed>>

\* make_time_plot up to fig.tight_layout()
TimeDraw ==
    /\ pc = "make_time_plot"
    /\ invoked' = Append(invoked, "time")
    /\ \E c \in {TimeSeries(rows)} :
          timeChart' = [drawn |-> TRUE, labels |-> c.labels, sha |-> c.sha, ph |-> c.ph]
    /\ openFigs' = openFigs \cup {"time"}
    /\ pc' = "time_savefig"
    /\ UNCHANGED <<header, input, error, fileOpen, reads, rows, speedupChart, thrChart,
                   written, printed>>

\* fig.savefig(out_png) and plt.close(fig) of make_time_plot
TimeSave ==
    /\ pc = "time_savefig"
    /\ \E ok \in BOOLEAN :
          IF ok THEN /\ written' = Append(written, time_png)
                     /\ openFigs' = openFigs \ {"time"}
                     /\ pc' = After("make_time_plot")
                     /\ error' = error
                ELSE /\ Raise("OSError")
                     /\ UNCHANGED <<written, openFigs>>
    /\ UNCHANGED <<header, input, fileOpen, reads, rows, invoked, timeChart, speedupChart,
                   thrChart, printed>>

\* make_speedup_plot up to fig.tight_layout()
SpeedupDraw ==
    /\ pc = "make_speedup_plot"
    /\ invoked' = Append(invoked, "speedup")
    /\ \E c \in {SpeedupSeries(rows)} :
          IF c.raised = ""
          THEN /\ speedupChart' = [drawn |-> TRUE, labels |-> c.labels, speedups |-> c.speedups]
               /\ openFigs' = openFigs \cup {"speedup"}
               /\ pc' = "speedup_savefig"
               /\ error' = error
          ELSE /\ Raise(c.raised)
               /\ UNCHANGED <<speedupChart, openFigs>>
    /\ UNCHANGED <<header, input, fileOpen, reads, rows, timeChart, thrChart, written, printed>>

\* fig.savefig(out_png) and plt.close(fig) of make_speedup_plot
SpeedupSave ==
    /\ pc = "speedup_savefig"
    /\ \E ok \in BOOLEAN :
          IF ok THEN /\ written' = Append(written, speedup_png)
                     /\ openFigs' = openFigs \ {"speedup"}
                     /\ pc' = After("make_speedup_plot")
                     /\ error' = error
                ELSE /\ Raise("OSError")
                     /\ UNCHANGED <<written, openFigs>>
    /\ UNCHANGED <<header, input, fileOpen, reads, rows, invoked, timeChart, speedupChart,
                   thrChart, printed>>

\* make_throughput_plot up to fig.tight_layout()
ThroughputDraw ==
    /\ pc = "make_throughput_plot"
    /\ invoked' = Append(invoked, "throughput")
    /\ \E c \in {ThroughputSeries(rows)} :
          thrChart' = [drawn |-> TRUE, labels |-> c.labels, sha |-> c.sha, ph |-> c.ph]
    /\ openFigs' = openFigs \cup {"throughput"}
    /\ pc' = "throughput_savefig"
    /\ UNCHANGED <<header, input, error, fileOpen, reads, rows, timeChart, speedupChart,
                   written, printed>>

\* fig.savefig(out_png) and plt.close(fig) of make_throughput_plot
ThroughputSave ==
    /\ pc = "throughput_savefig"
    /\ \E ok \in BOOLEAN :
          IF ok THEN /\ written' = Append(written, throughput_png)
                     /\ openFigs' = openFigs \ {"throughput"}
                     /\ pc' = After("make_throughput_plot")
                     /\ error' = error
                ELSE /\ Raise("OSError")
                     /\ UNCHANGED <<written, openFigs>>
    /\ UNCHANGED <<header, input, fileOpen, reads, rows, invoked, timeChart, speedupChart,
                   thrChart, printed>>

\* the four print calls that end main
Confirm ==
    /\ pc = "print"
    /\ printed' = <<"OK! Arquivos salvos:", " - " \o time_png, " - " \o speedup_png,
                    " - " \o throughput_png>>
    /\ pc' = "done"
    /\ UNCHANGED <<header, input, error, fileOpen, reads, rows, invoked, openFigs,
                   timeChart, speedupChart, thrChart, written>>

Next ==
    \/ OpenInput
    \/ ReadRows
    \/ TimeDraw
    \/ TimeSave
    \/ SpeedupDraw
    \/ SpeedupSave
    \/ ThroughputDraw
    \/ ThroughputSave
    \/ Confirm

---------------------------------------------------------------------------
(* The tables the behaviours start from.                                   *)

Row(a, f, bb, by, el, th, hx) ==
    [c \in Columns |->
        CASE c = "algo"             -> Cell(a)
          [] c = "file"             -> Cell(f)
          [] c = "B_bytes"          -> Cell(bb)
          [] c = "bytes"            -> Cell(by)
          [] c = "elapsed_ms_med"   -> Cell(el)
          [] c = "throughput_mib_s" -> Cell(th)
          [] c = "sum_hex"          -> Cell(hx)]

\* the state main starts in, for a table with header h and data rows t
Start(h, t) ==
    /\ header = h
    /\ input = t
    /\ pc = "main"
    /\ error = ""
    /\ fileOpen = FALSE
    /\ reads = 0
    /\ rows = <<>>
    /\ invoked = <<>>
    /\ openFigs = {}
    /\ timeChart = NotDrawn
    /\ speedupChart = NoSpeedup
    /\ thrChart = NotDrawn
    /\ written = <<>>
    /\ printed = <<>>

\* Whole runs: the elapsed and throughput cells of a row
RunMeasures == {<<"100.0", "10.0">>, <<"20.0", "50.0">>, <<"7.5", "2.5">>, <<"3", "0">>, <<"", "">>}

RunRows ==
    {Row(a, f, "", "1048576", m[1], m[2], "") :
        a \in {"SHA-256", "PH128"}, f \in {"data.bin", "TOTAL"}, m \in RunMeasures}
    \cup {Row("MD5", "data.bin", "", "1048576", "40.0", "25.0", ""),
          Row("SHA-256", "lonely.bin", "", "1048576", "100.0", "10.0", ""),
          Row(" PH128 ", " data.bin ", "", "1048576", " 20.0 ", " 50.0 ", "")}

RunHeaders == {Columns, Columns \ {"algo"}, Columns \ {"file"}}

Init == \E h \in RunHeaders, k \in 0..MaxRows : \E t \in [1..k -> RunRows] : Start(h, t)

Spec == Init /\ [][Next]_vars

\* Coercion: the cells a numeric column may hold
CoerceCells == {Missing} \cup {Cell(t) : t \in {"", "  ", "abc", " 42 ", "1.5", "0", "0.0", "-3"}}

CoerceBase == Row("SHA-256", "data.bin", "4096", "1048576", "100.0", "10.0", "ab12")

CoerceRows ==
    {[CoerceBase EXCEPT ![c] = x] : c \in NumericColumns, x \in CoerceCells}
    \cup {[c \in Columns |-> IF c \in NumericColumns THEN x ELSE CoerceBase[c]] : x \in CoerceCells}
    \cup {[CoerceBase EXCEPT !["file"] = Missing]}

CoerceHeaders == {Columns} \cup {Columns \ {c} : c \in NumericColumns}

InitCoerce ==
    \E h \in CoerceHeaders, k \in 0..MaxCoerceRows : \E t \in [1..k -> CoerceRows] : Start(h, t)

SpecCoerce == InitCoerce /\ [][Next]_vars

\* Grouping: the algorithm and file of a row; its measurements are set by
\* its position in the table, so that no two rows are equal
OrderKinds == ({"SHA-256", "PH128"} \X {"TOTAL", "A.bin", "z.bin"}) \cup {<<"MD5", "A.bin">>}

OrderRow(i, k) ==
    Row(k[1], k[2], "", ToString(1024 * i), ToString(10 * i) \o ".5", ToString(i) \o ".25", "")

InitOrder ==
    \E k \in 0..MaxOrderRows : \E ks \in [1..k -> OrderKinds] :
        Start(Columns, [i \in 1..k |-> OrderRow(i, ks[i])])

SpecOrder == InitOrder /\ [][Next]_vars

\* Sorting: both algorithms over two preferred and two other file names
SortKinds == {"SHA-256", "PH128"} \X {"TOTAL", "txids.data", "A.bin", "z.bin"}

InitSort ==
    \E k \in 0..MaxSortRows : \E ks \in [1..k -> SortKinds] :
        Start(Columns, [i \in 1..k |-> OrderRow(i, ks[i])])

SpecSort == InitSort /\ [][Next]_vars

---------------------------------------------------------------------------
(* What the claims speak of, stated on main's `rows` directly.             *)

SetOf(s) == {s[i] : i \in 1..Len(s)}

NoDuplicates(s) == \A i, j \in 1..Len(s) : s[i] = s[j] => i = j

Max(S) == CHOOSE x \in S : \A y \in S : y <= x

Min(S) == CHOOSE x \in S : \A y \in S : x <= y

FileNames == {rows[i].file : i \in 1..Len(rows)}

\* the positions of the rows of file f and algorithm a
RowsOf(f, a) == {i \in 1..Len(rows) : rows[i].file = f /\ rows[i].algo = a}

\* the positions of the rows of file f, of any algorithm
RowsNaming(f) == {i \in 1..Len(rows) : rows[i].file = f}

\* the positions of the rows of file f with one of the two recognized algorithms
RecognizedRowsNaming(f) == RowsOf(f, "SHA-256") \cup RowsOf(f, "PH128")

\* the last row of file f and algorithm a
LastRow(f, a) == rows[Max(RowsOf(f, a))]

HasBothRows(f) == RowsOf(f, "SHA-256") # {} /\ RowsOf(f, "PH128") # {}

\* read_rows has returned
RowsRead == pc \notin {"main", "read_rows", "failed"} \/ invoked # <<>>

NonZero(v) == v.n # 0

\* the pivot index holds a record for f under both algorithms
IndexHasBoth(index, f) ==
    f \in DOMAIN index.at /\ {"SHA-256", "PH128"} \subseteq DOMAIN index.at[f]

\* the speedup chart's extra condition on a file the index holds under both
BothNonZero(index, f) ==
    /\ NonZero(index.at[f]["SHA-256"].throughput_mib_s)
    /\ NonZero(index.at[f]["PH128"].throughput_mib_s)

\* every name a chart or the index could show
Names == FileNames \cup SetOf(timeChart.labels) \cup SetOf(speedupChart.labels)
         \cup SetOf(thrChart.labels) \cup SetOf(preferred)

---------------------------------------------------------------------------
\* C1 (as stated): in each of the three charts, a file name is a category
\* if and only if the pivot index holds a record for it under both SHA-256
\* and PH128 (and, in the speedup chart, both throughputs are non-zero).
C1_AsStated ==
    LET index == pivot_by_file(rows)
    IN  /\ timeChart.drawn =>
              \A f \in Names : InSeq(f, timeChart.labels) <=> IndexHasBoth(index, f)
        /\ speedupChart.drawn =>
              \A f \in Names : InSeq(f, speedupChart.labels) <=>
                  (IndexHasBoth(index, f) /\ BothNonZero(index, f))
        /\ thrChart.drawn =>
              \A f \in Names : InSeq(f, thrChart.labels) <=> IndexHasBoth(index, f)

\* C1 (amended): as stated for the speedup and the throughput chart; in the
\* time chart a file name is a category if and only if the index holds a
\* record for it under both algorithms and it is not "TOTAL".  A file with
\* a record under one algorithm only is in no chart.
C1_Categories ==
    LET index == pivot_by_file(rows)
    IN  /\ timeChart.drawn =>
              \A f \in Names :
                  InSeq(f, timeChart.labels) <=> (IndexHasBoth(index, f) /\ f # "TOTAL")
        /\ speedupChart.drawn =>
              \A f \in Names : InSeq(f, speedupChart.labels) <=>
                  (IndexHasBoth(index, f) /\ BothNonZero(index, f))
        /\ thrChart.drawn =>
              \A f \in Names : InSeq(f, thrChart.labels) <=> IndexHasBoth(index, f)
        /\ \A f \in Names : ~HasBothRows(f) =>
              /\ ~InSeq(f, timeChart.labels)
              /\ ~InSeq(f, speedupChart.labels)
              /\ ~InSeq(f, thrChart.labels)

\* C1 witness: all three charts are drawn, "TOTAL" has both algorithms, is a
\* category of the speedup and throughput charts and is none of the time chart
C1_Witness ==
    /\ timeChart.drawn /\ speedupChart.drawn /\ thrChart.drawn
    /\ IndexHasBoth(pivot_by_file(rows), "TOTAL")
    /\ InSeq("TOTAL", speedupChart.labels)
    /\ InSeq("TOTAL", thrChart.labels)
    /\ ~InSeq("TOTAL", timeChart.labels)

---------------------------------------------------------------------------
\* C2: the pivot index has an entry for file f exactly when some row of f
\* has a recognized algorithm; an entry's keys are among "SHA-256" and
\* "PH128", and are exactly the recognized algorithms f has a row for; and
\* index[f][a] is the last row, in input order, of file f and algorithm a.
C2_PivotLastWins ==
    RowsRead =>
        LET index == pivot_by_file(rows)
            keys  == DOMAIN index.at
        IN  /\ NoDuplicates(index.order)
            /\ SetOf(index.order) = keys
            /\ keys = {f \in FileNames : RecognizedRowsNaming(f) # {}}
            /\ \A f \in keys :
                  /\ DOMAIN index.at[f] \subseteq {"SHA-256", "PH128"}
                  /\ DOMAIN index.at[f] = {a \in {"SHA-256", "PH128"} : RowsOf(f, a) # {}}
                  /\ \A a \in DOMAIN index.at[f] : index.at[f][a] = LastRow(f, a)

\* C2 witness: the rows read hold two different rows of one file and one
\* recognized algorithm, and a row of an unrecognized algorithm
C2_Witness ==
    /\ RowsRead
    /\ \E f \in FileNames, a \in {"SHA-256", "PH128"} :
          /\ Cardinality(RowsOf(f, a)) >= 2
          /\ rows[Min(RowsOf(f, a))] # rows[Max(RowsOf(f, a))]
    /\ \E i \in 1..Len(rows) : rows[i].algo = "MD5"

---------------------------------------------------------------------------
\* C3: in the speedup chart every category, "TOTAL" included, has one bar,
\* whose value is the retained PH128 throughput divided by the retained
\* SHA-256 throughput, exactly; a file with a zero throughput under either
\* algorithm has no bar, and no division by zero is performed.
C3_SpeedupExact ==
    /\ error # "ZeroDivisionError"
    /\ speedupChart.drawn =>
          /\ NoDuplicates(speedupChart.labels)
          /\ Len(speedupChart.speedups) = Len(speedupChart.labels)
          /\ \A i \in 1..Len(speedupChart.labels) :
                LET f   == speedupChart.labels[i]
                    v   == speedupChart.speedups[i]
                    sha == LastRow(f, "SHA-256").throughput_mib_s
                    ph  == LastRow(f, "PH128").throughput_mib_s
                IN  /\ HasBothRows(f)
                    /\ sha.n # 0
                    /\ v.d > 0
                    /\ Gcd(Abs(v.n), v.d) = 1
                    /\ v.n * (ph.d * sha.n) = v.d * (ph.n * sha.d)
          /\ \A f \in FileNames :
                (HasBothRows(f) /\ (LastRow(f, "SHA-256").throughput_mib_s.n = 0
                                    \/ LastRow(f, "PH128").throughput_mib_s.n = 0))
                    => ~InSeq(f, speedupChart.labels)
          /\ \A f \in FileNames :
                (HasBothRows(f) /\ LastRow(f, "SHA-256").throughput_mib_s.n # 0
                                /\ LastRow(f, "PH128").throughput_mib_s.n # 0)
                    => InSeq(f, speedupChart.labels)

\* C3 witness: the speedup chart of the table SHA-256 TOTAL 10.0, PH128 TOTAL
\* 2.5 is drawn: one bar, of value 1/4
C3_Witness ==
    /\ speedupChart.drawn
    /\ speedupChart.labels = <<"TOTAL">>
    /\ speedupChart.speedups = <<[tag |-> "float", n |-> 1, d |-> 4]>>

---------------------------------------------------------------------------
PreferredRank(f) == CHOOSE i \in 1..Len(preferred) : preferred[i] = f

\* C4: the throughput chart's categories are the files with both algorithms,
\* each once; the qualifying entries of the preferred list come first, in
\* the list's order, and the other names follow in lexicographic order.
C4_ThroughputOrder ==
    thrChart.drawn =>
        /\ NoDuplicates(thrChart.labels)
        /\ SetOf(thrChart.labels) = {f \in FileNames : HasBothRows(f)}
        /\ \A i, j \in 1..Len(thrChart.labels) :
              i < j =>
                 LET f == thrChart.labels[i]
                     g == thrChart.labels[j]
                 IN  IF InSeq(f, preferred)
                     THEN InSeq(g, preferred) => PreferredRank(f) < PreferredRank(g)
                     ELSE ~InSeq(g, preferred) /\ StrLess(f, g)

\* C4 witness: "A.bin" is the file of the first row and sorts before "TOTAL",
\* and the chart shows "TOTAL" first, then "A.bin"
C4_Witness ==
    /\ thrChart.drawn
    /\ Len(rows) > 0 /\ rows[1].file = "A.bin"
    /\ StrLess("A.bin", "TOTAL")
    /\ thrChart.labels = <<"TOTAL", "A.bin">>

---------------------------------------------------------------------------
\* C5: the time chart's categories are the files other than "TOTAL" with
\* both algorithms, each once; the i-th bars are the elapsed_ms_med of the
\* retained SHA-256 and PH128 records of the i-th category; "TOTAL" is no
\* category of it, and is one of the speedup chart when it has both
\* algorithms with non-zero throughputs.
C5_TimeChart ==
    /\ timeChart.drawn =>
          /\ NoDuplicates(timeChart.labels)
          /\ SetOf(timeChart.labels) = {f \in FileNames : f # "TOTAL" /\ HasBothRows(f)}
          /\ Len(timeChart.sha) = Len(timeChart.labels)
          /\ Len(timeChart.ph) = Len(timeChart.labels)
          /\ \A i \in 1..Len(timeChart.labels) :
                /\ timeChart.sha[i] = LastRow(timeChart.labels[i], "SHA-256").elapsed_ms_med
                /\ timeChart.ph[i] = LastRow(timeChart.labels[i], "PH128").elapsed_ms_med
    /\ speedupChart.drawn =>
          ((HasBothRows("TOTAL") /\ LastRow("TOTAL", "SHA-256").throughput_mib_s.n # 0
                                 /\ LastRow("TOTAL", "PH128").throughput_mib_s.n # 0)
              => InSeq("TOTAL", speedupChart.labels))

\* C5 witness: "TOTAL" and another file have both algorithms; the time chart
\* shows the other file alone, the speedup chart both
C5_Witness ==
    /\ timeChart.drawn /\ speedupChart.drawn
    /\ HasBothRows("TOTAL")
    /\ Len(timeChart.labels) = 1
    /\ timeChart.sha # timeChart.ph
    /\ Len(speedupChart.labels) = 2

---------------------------------------------------------------------------
\* the value the documented default gives a numeric column whose cell fails
\* coercion
DefaultOf(col) ==
    CASE col = "B_bytes"          -> None
      [] col = "bytes"            -> IntVal(0)
      [] col = "elapsed_ms_med"   -> FloatVal(0, 1)
      [] col = "throughput_mib_s" -> FloatVal(0, 1)

\* the cells of the coercion tables that are an int numeral once stripped
IntNumerals == {Cell(" 42 "), Cell("0"), Cell("-3"), Cell("4096"), Cell("1048576")}

\* those that are a float numeral once stripped
FloatNumerals == IntNumerals \cup {Cell("1.5"), Cell("0.0"), Cell("100.0"), Cell("10.0")}

\* the cell read_rows sees in column col of raw row r: "" for a column the
\* header lacks
Seen(r, col) == IF col \in header THEN r[col] ELSE Cell("")

FailsCoercion(r, col) ==
    IF col \in {"B_bytes", "bytes"} THEN Seen(r, col) \notin IntNumerals
                                    ELSE Seen(r, col) \notin FloatNumerals

\* C6: read_rows raises only on a row whose algo or file cell is missing,
\* whatever the numeric cells hold; every other row becomes a record, and a
\* numeric cell that fails coercion (absent column, missing, empty, blank or
\* non-numeric) gives None for B_bytes and 0, 0.0, 0.0 for bytes,
\* elapsed_ms_med and throughput_mib_s.
C6_CoercionDefaults ==
    /\ (pc = "failed" /\ error \notin {"OSError"}) =>
          /\ error \in {"KeyError", "AttributeError"}
          /\ \E i \in 1..Len(input) :
                \E col \in {"algo", "file"} : col \notin header \/ ~input[i][col].some
    /\ RowsRead =>
          /\ Len(rows) = Len(input)
          /\ \A i \in 1..Len(rows), col \in NumericColumns :
                FailsCoercion(input[i], col) => rows[i][col] = DefaultOf(col)
          /\ \A i \in 1..Len(rows) :
                /\ Seen(input[i], "B_bytes") = Cell(" 42 ") => rows[i].B_bytes = IntVal(42)
                /\ Seen(input[i], "bytes") = Cell("-3") => rows[i].bytes = IntVal(-3)
                /\ Seen(input[i], "elapsed_ms_med") = Cell("1.5") =>
                      rows[i].elapsed_ms_med = [tag |-> "float", n |-> 3, d |-> 2]
                /\ Seen(input[i], "throughput_mib_s") = Cell(" 42 ") =>
                      rows[i].throughput_mib_s = [tag |-> "float", n |-> 42, d |-> 1]

\* C6 witness: a row whose four numeric cells are all non-numeric text has
\* been read into a record with the four defaults
C6_Witness ==
    /\ RowsRead
    /\ header = Columns
    /\ Len(rows) = 1
    /\ \A col \in NumericColumns : input[1][col] = Cell("abc") /\ rows[1][col] = DefaultOf(col)

---------------------------------------------------------------------------
IsPrefix(s, t) == Len(s) <= Len(t) /\ \A i \in 1..Len(s) : s[i] = t[i]

C7_Inv ==
    /\ reads \in {0, 1}
    /\ reads = 0 <=> pc = "main"
    /\ IsPrefix(invoked, <<"time", "speedup", "throughput">>)
    /\ IsPrefix(written, <<time_png, speedup_png, throughput_png>>)
    /\ Len(written) <= Len(invoked) /\ Len(invoked) <= Len(written) + 1
    /\ Cardinality(openFigs) <= 1
    /\ printed # <<>> =>
          /\ Len(written) = 3
          /\ pc = "done"
          /\ error = ""
          /\ printed = <<"OK! Arquivos salvos:", " - " \o time_png, " - " \o speedup_png,
                         " - " \o throughput_png>>
    /\ pc = "done" => printed # <<>>
    /\ pc = "failed" <=> error # ""

C7_Step ==
    /\ invoked' # invoked =>
          /\ Len(written) = Len(invoked)
          /\ reads = 1 /\ ~fileOpen
          /\ openFigs = {}
          /\ error = ""
    /\ reads' # reads => reads = 0
    /\ pc = "failed" => (pc' = "failed" /\ invoked' = invoked /\ written' = written
                         /\ printed' = printed)

\* C7: main reads the input once, then invokes the renderers in the order
\* time, speedup, throughput, each having written its image before the next
\* is invoked; the confirmation is printed only after the three images are
\* written; once the reader or a renderer raises, the run is failed, no
\* renderer is invoked afterwards and nothing is printed.
C7_MainOrder == [](C7_Inv) /\ [][C7_Step]_vars

\* C7 witness: a run ended with the three images written in order and the
\* confirmation printed
C7_Witness ==
    /\ pc = "done"
    /\ invoked = <<"time", "speedup", "throughput">>
    /\ written = <<time_png, speedup_png, throughput_png>>
    /\ Len(printed) = 4

---------------------------------------------------------------------------
LacksRequired == "algo" \notin header \/ "file" \notin header

RunFailedInReader ==
    /\ pc \in {"main", "read_rows", "failed"}
    /\ invoked = <<>>
    /\ written = <<>>
    /\ printed = <<>>
    /\ pc = "failed" => error \in {"OSError", "KeyError"}

\* C8 (as stated): whenever the header lacks `algo` or `file`, the run
\* fails in read_rows: no renderer is invoked and no confirmation printed,
\* however many data rows the table has, none included.
C8_AsStated == LacksRequired => RunFailedInReader

\* C8 (amended): whenever the header lacks `algo` or `file` and the table
\* has at least one data row, the run fails in read_rows (with KeyError once
\* the file is open): no renderer is invoked and no confirmation printed.
C8_MissingColumnFails == (LacksRequired /\ Len(input) >= 1) => RunFailedInReader

\* C8 witness: a table without the `file` column and with a data row has
\* ended the run with KeyError, the file closed and nothing rendered
C8_Witness ==
    /\ "file" \notin header
    /\ Len(input) >= 1
    /\ pc = "failed" /\ error = "KeyError"
    /\ ~fileOpen
    /\ invoked = <<>>

---------------------------------------------------------------------------
Position(s, x) == CHOOSE i \in 1..Len(s) : s[i] = x

\* C9 (as stated): for two file names f and g of the pivot index, f comes
\* before g in the index's order exactly when the first row naming f comes
\* before the first row naming g.
C9_AsStated ==
    RowsRead =>
        LET index == pivot_by_file(rows)
            place == [f \in DOMAIN index.at |-> Position(index.order, f)]
            first == [f \in DOMAIN index.at |-> Min(RowsNaming(f))]
        IN  \A f, g \in DOMAIN index.at : place[f] < place[g] <=> first[f] < first[g]

\* C9 (amended): for two file names f and g of the pivot index, f comes
\* before g in the index's order exactly when the first row naming f with a
\* recognized algorithm comes before the first such row naming g; the
\* categories of the time chart and of the speedup chart are in that order.
C9_FirstRecognizedOrder ==
    RowsRead =>
        LET index == pivot_by_file(rows)
            place == [f \in DOMAIN index.at |-> Position(index.order, f)]
            first == [f \in DOMAIN index.at |-> Min(RecognizedRowsNaming(f))]
        IN  /\ \A f, g \in DOMAIN index.at : place[f] < place[g] <=> first[f] < first[g]
            /\ SetOf(timeChart.labels) \subseteq DOMAIN index.at
            /\ \A i, j \in 1..Len(timeChart.labels) :
                  i < j => first[timeChart.labels[i]] < first[timeChart.labels[j]]
            /\ SetOf(speedupChart.labels) \subseteq DOMAIN index.at
            /\ \A i, j \in 1..Len(speedupChart.labels) :
                  i < j => first[speedupChart.labels[i]] < first[speedupChart.labels[j]]

\* C9 witness: the time and speedup charts are drawn, one category each,
\* from an index of two files of which the one named first in the input
\* (by a row of an unrecognized algorithm) comes second
C9_Witness ==
    /\ timeChart.drawn /\ Len(timeChart.labels) = 1
    /\ speedupChart.drawn /\ Len(speedupChart.labels) = 1
    /\ LET index == pivot_by_file(rows)
       IN  \E f, g \in DOMAIN index.at :
              /\ Min(RowsNaming(f)) < Min(RowsNaming(g))
              /\ Position(index.order, g) < Position(index.order, f)

---------------------------------------------------------------------------
\* C10: the input file handle is open inside read_rows only; at most one
\* figure is open at any time; and no figure is open when a renderer is
\* about to start, when main prints, or when the run has ended, normally
\* or by an exception.
C10_ScopedResources ==
    /\ fileOpen => pc = "read_rows"
    /\ Cardinality(openFigs) <= 1
    /\ pc \in {"make_time_plot", "make_speedup_plot", "make_throughput_plot",
               "print", "done", "failed"} => openFigs = {}

====
